---- MODULE Spec2Model ----
(***************************************************************************)
(* A model of react-pixi-poc: the host configuration that lets the React   *)
(* reconciler drive a PIXI scene graph (src/src/index.js, lines 18-588),   *)
(* and ReactPixi.render, the root session manager                          *)
(* (src/src/react-pixi/index.js).                                          *)
(*                                                                         *)
(* The PIXI display objects and the reconciler are libraries the program   *)
(* calls; they are modelled by what the calls the program makes do.        *)
(***************************************************************************)
EXTENDS Integers, Sequences, FiniteSets, TLC

VARIABLES
    scene,          \* the PIXI display objects: child lists, parents, drawings
    call,           \* the host-configuration call made last: arguments, result
    rootContainer,  \* the _rootContainer field of each PIXI container
    engine,         \* the reconciler: roots, committed fibers, queued updates
    wip,            \* the reconciler's pass in progress
    session,        \* what the render call made last did and returned
    done            \* render calls by id: a callback passed, committed, callback run;
                    \* and what the host functions were called for on each node

vars == <<scene, call, rootContainer, engine, wip, session, done>>

---------------------------------------------------------------------------
(* Bounds of the model *)

\* Graphics objects constructed in one run of the node-level specification.
MaxCreate == 1
\* Graphics objects constructed in one run of the tree-level specification.
MaxTreeNodes == 3
\* Graphics objects constructed in one run of the render specification.
MaxNodes == 3
\* render calls made in one run of the render specification.
MaxRenders == 2
\* updates queued in the reconciler and not yet taken by a pass.
MaxPending == 2
\* top-level elements of one tree description.
MaxElems == 2

---------------------------------------------------------------------------
(* Values *)

None == "none"

\* The PIXI containers render is called with (app.stage, and a second one).
Containers == {"A", "B"}

\* The names of the Graphics objects, in the order they are constructed.
NodeNames == <<"n1", "n2", "n3", "n4", "n5", "n6", "n7", "n8">>

Nodes == {NodeNames[i] : i \in 1..Len(NodeNames)}

Objects == Containers \cup Nodes

TYPE_RECTANGLE == "RECTANGLE"

\* An element type the host configuration has no case for.
TYPE_OTHER == "CIRCLE"

Types == {TYPE_RECTANGLE, TYPE_OTHER}

PropNames == {"x", "y", "width", "height"}

DefaultX == 0

DefaultY == 0

DefaultWidth == 100

DefaultHeight == 100

FillColor == 16777215

\* A property mapping: the properties an element supplies.
Supplied(p) == DOMAIN p

Props(S, x, y, w, h) ==
    [k \in S |-> CASE k = "x" -> x
                   [] k = "y" -> y
                   [] k = "width" -> w
                   [] OTHER -> h]

NoShape == [x |-> -1, y |-> -1, width |-> -1, height |-> -1, fill |-> -1]

---------------------------------------------------------------------------
(* The PIXI display objects *)

EmptyScene ==
    [children |-> [o \in Objects |-> <<>>],
     parent   |-> [n \in Nodes |-> None],
     drawn    |-> [n \in Nodes |-> NoShape],
     visible  |-> [n \in Nodes |-> TRUE],
     next     |-> 0]

\* The Graphics objects constructed so far.
Alive(sc) == {NodeNames[i] : i \in 1..sc.next}

InList(list, c) == \E i \in 1..Len(list) : list[i] = c

Count(list, c) == Cardinality({i \in 1..Len(list) : list[i] = c})

IndexOf(list, c) == CHOOSE i \in 1..Len(list) : list[i] = c /\ \A j \in 1..(i - 1) : list[j] # c

\* Array.splice(index, 1) at the first index of c.
RemoveFirst(list, c) ==
    IF InList(list, c)
    THEN LET i == IndexOf(list, c)
         IN SubSeq(list, 1, i - 1) \o SubSeq(list, i + 1, Len(list))
    ELSE list

Without(list, c) == SelectSeq(list, LAMBDA e : e # c)

\* PIXI.Container.removeChild(child): no effect when child is not in the list.
pixiRemoveChild(sc, p, c) ==
    IF InList(sc.children[p], c)
    THEN [sc EXCEPT !.children[p] = RemoveFirst(@, c), !.parent[c] = None]
    ELSE sc

\* PIXI.Container.addChild(child): the child leaves its parent, then is pushed.
addChild(sc, p, c) ==
    LET sc1 == IF sc.parent[c] # None THEN pixiRemoveChild(sc, sc.parent[c], c) ELSE sc
    IN [sc1 EXCEPT !.children[p] = Append(@, c), !.parent[c] = p]

\* new PIXI.Graphics(); beginFill(color); drawRect(x, y, width, height); endFill()
newGraphics(sc, color, x, y, w, h) ==
    LET n == NodeNames[sc.next + 1]
    IN [sc EXCEPT !.next = @ + 1,
                  !.drawn[n] = [x |-> x, y |-> y, width |-> w, height |-> h, fill |-> color],
                  !.parent[n] = None,
                  !.children[n] = <<>>,
                  !.visible[n] = TRUE]

\* The objects below o in the scene graph, o included.
RECURSIVE Below(_, _, _)
Below(sc, o, fuel) ==
    IF fuel = 0 THEN {o}
    ELSE {o} \cup UNION {Below(sc, sc.children[o][i], fuel - 1) : i \in 1..Len(sc.children[o])}

Subtree(sc, o) == Below(sc, o, Len(NodeNames))

---------------------------------------------------------------------------
(* The host configuration (src/src/index.js) *)

\* JavaScript values the host functions return or throw.
Undefined == [tag |-> "undefined"]

Null == [tag |-> "null"]

Bool(b) == [tag |-> "boolean", value |-> b]

\* A reference to a display object.
Ref(n) == [tag |-> "object", ref |-> n]

Error(message) == [tag |-> "error", message |-> message]

\* What a call of a host function did: it threw or returned, and the scene after.
Return(sc, result) == [threw |-> FALSE, result |-> result, scene |-> sc]

Throw(sc, message) == [threw |-> TRUE, result |-> Error(message), scene |-> sc]

\* const { x = 0, y = 0, width = 100, height = 100 } = props
PropOr(props, k, default) == IF k \in DOMAIN props THEN props[k] ELSE default

\* A createInstance whose destructuring gives width and height no default size.
createInstanceNoSize(sc, type, props) ==
    IF type = TYPE_RECTANGLE
    THEN LET x == PropOr(props, "x", DefaultX)
             y == PropOr(props, "y", DefaultY)
             width == PropOr(props, "width", 0)
             height == PropOr(props, "height", 0)
         IN Return(newGraphics(sc, FillColor, x, y, width, height), Ref(NodeNames[sc.next + 1]))
    ELSE Throw(sc, "Unknown element type")

\* A createInstance whose switch has no default case: any type draws a rectangle.
createInstanceAnyType(sc, type, props) ==
    LET x == PropOr(props, "x", DefaultX)
        y == PropOr(props, "y", DefaultY)
        width == PropOr(props, "width", DefaultWidth)
        height == PropOr(props, "height", DefaultHeight)
    IN Return(newGraphics(sc, FillColor, x, y, width, height), Ref(NodeNames[sc.next + 1]))

\* A createInstance that adds the new node to the stage as soon as it is drawn.
createInstanceAttaches(sc, type, props) ==
    IF type = TYPE_RECTANGLE
    THEN LET made == newGraphics(sc, FillColor, PropOr(props, "x", DefaultX),
                                 PropOr(props, "y", DefaultY),
                                 PropOr(props, "width", DefaultWidth),
                                 PropOr(props, "height", DefaultHeight))
             node == NodeNames[sc.next + 1]
         IN Return(addChild(made, "A", node), Ref(node))
    ELSE Throw(sc, "Unknown element type")

\* A createInstance that hands back the first node it made instead of a new one.
createInstanceReuses(sc, type, props) ==
    IF type = TYPE_RECTANGLE
    THEN IF sc.next > 0
         THEN Return(sc, Ref(NodeNames[1]))
         ELSE Return(newGraphics(sc, FillColor, DefaultX, DefaultY, DefaultWidth, DefaultHeight),
                     Ref(NodeNames[1]))
    ELSE Throw(sc, "Unknown element type")

createInstance(sc, type, props) ==
    IF type = TYPE_RECTANGLE
    THEN LET x == PropOr(props, "x", DefaultX)
             y == PropOr(props, "y", DefaultY)
             width == PropOr(props, "width", DefaultWidth)
             height == PropOr(props, "height", DefaultHeight)
         IN Return(newGraphics(sc, FillColor, x, y, width, height), Ref(NodeNames[sc.next + 1]))
    ELSE Throw(sc, "Unknown element type")

appendInitialChild(sc, parentInstance, child) == Return(sc, Undefined)

finalizeInitialChildren(sc, instance, type, props) == Return(sc, Bool(FALSE))

\* A prepareUpdate that hands the new properties back as the payload every time.
prepareUpdateAlways(sc, instance, type, oldProps, newProps) ==
    Return(sc, [tag |-> "payload", props |-> newProps])

\* A prepareUpdate that redraws the node with the new properties straight away.
prepareUpdateApplies(sc, instance, type, oldProps, newProps) ==
    Return([sc EXCEPT !.drawn[instance] =
                [k \in DOMAIN @ |-> IF k \in DOMAIN newProps THEN newProps[k] ELSE @[k]]],
           Undefined)

prepareUpdate(sc, instance, type, oldProps, newProps) == Return(sc, Undefined)

shouldSetTextContent(sc, type, props) == Return(sc, Bool(FALSE))

getRootHostContext(sc, container) == Return(sc, Null)

getChildHostContext(sc, parentHostContext, type, container) == Return(sc, parentHostContext)

getPublicInstance(sc, instance) == Return(sc, Undefined)

getCurrentEventPriority(sc) == Return(sc, Undefined)

\* An appendChild that pushes onto the child list without detaching the child first.
appendChildPush(sc, parentInstance, child) ==
    Return([sc EXCEPT !.children[parentInstance] = Append(@, child),
                      !.parent[child] = parentInstance], Undefined)

appendChild(sc, parentInstance, child) == Return(addChild(sc, parentInstance, child), Undefined)

\* An appendChildToContainer with an empty body, like the other container functions.
appendChildToContainerEmpty(sc, container, child) == Return(sc, Undefined)

appendChildToContainer(sc, container, child) == appendChild(sc, container, child)

insertBefore(sc, parentInstance, child, beforeChild) == Return(sc, Undefined)

insertInContainerBefore(sc, container, child, beforeChild) == Return(sc, Undefined)

removeChild(sc, parentInstance, child) == Return(sc, Undefined)

removeChildFromContainer(sc, container, child) == Return(sc, Undefined)

commitUpdate(sc, instance, updatePayload, type, prevProps, nextProps) == Return(sc, Undefined)

hideInstance(sc, instance) == Return(sc, Undefined)

unhideInstance(sc, instance, props) == Return(sc, Undefined)

clearContainer(sc, container) == Return(sc, Undefined)

\* A wrapper that catches what cb throws, logs and returns undefined instead.
logFunctionCallSwallows(name, args, r) ==
    [fn |-> name, args |-> args, invoked |-> <<args>>, threw |-> FALSE,
     result |-> IF r.threw THEN Undefined ELSE r.result,
     logged |-> <<name, args, IF r.threw THEN Undefined ELSE r.result>>, scene |-> r.scene]

\* logFunctionCall(cb)(...args): cb is called once with args; when it returned,
\* console.log gets the name, the arguments and the result, and the wrapper
\* returns the result; when it threw, the error leaves the wrapper at once.
\* r is what cb(...args) did.
logFunctionCall(name, args, r) ==
    [fn |-> name, args |-> args, invoked |-> <<args>>, threw |-> r.threw, result |-> r.result,
     logged |-> IF r.threw THEN <<>> ELSE <<name, args, r.result>>, scene |-> r.scene]

\* A value a host function treats as "no payload": if (updatePayload) in the reconciler.
Falsy(v) == v.tag \in {"undefined", "null"} \/ (v.tag = "boolean" /\ ~v.value)

NoCall == [fn |-> None]

\* The record of one call of a host function through the host configuration.
Called(name, args, r, before) ==
    LET w == logFunctionCall(name, args, r)
    IN [fn |-> name, args |-> args, invoked |-> w.invoked, threw |-> w.threw,
        result |-> w.result, logged |-> w.logged, before |-> before]

---------------------------------------------------------------------------
(* The state before anything is rendered *)

NoHandle == 0

Idle == [phase |-> "idle"]

NoSession == [calls |-> 0]

SystemInit ==
    /\ rootContainer = [c \in Containers |-> NoHandle]
    /\ engine = [roots |-> <<>>, created |-> [c \in Containers |-> 0]]
    /\ wip = Idle
    /\ session = NoSession
    /\ done = [passed |-> {}, committed |-> {}, invoked |-> {},
               life |-> [n \in Nodes |-> "none"]]

system == <<rootContainer, engine, wip, session, done>>

---------------------------------------------------------------------------
(* The reconciler calling single host functions on single nodes:           *)
(* the node-level specification                                            *)

\* The property mappings the node-level calls are made with: every subset of
\* the four properties supplied, and the two mappings of the update scenario.
RectA == Props(PropNames, 0, 0, 50, 50)

RectB == Props(PropNames, 10, 0, 50, 50)

NodeProps == {Props(S, 10, 20, 50, 60) : S \in SUBSET PropNames} \cup {RectA, RectB}

\* The property mappings updates are computed between.
UpdateProps == {RectA, RectB, Props(PropNames, 10, 20, 50, 60), Props({"x", "width"}, 10, 0, 50, 0)}

CallCreateInstance(type, props, max) ==
    /\ scene.next < max
    /\ LET r == createInstance(scene, type, props)
       IN /\ scene' = logFunctionCall("createInstance", <<type, props>>, r).scene
          /\ call' = Called("createInstance", <<type, props>>, r, scene)
    /\ UNCHANGED system

CallPrepareUpdate(instance, oldProps, newProps) ==
    /\ instance \in Alive(scene)
    /\ LET r == prepareUpdate(scene, instance, TYPE_RECTANGLE, oldProps, newProps)
       IN /\ scene' = logFunctionCall("prepareUpdate", <<instance, oldProps, newProps>>, r).scene
          /\ call' = Called("prepareUpdate", <<instance, oldProps, newProps>>, r, scene)
    /\ UNCHANGED system

CallGetPublicInstance(instance) ==
    /\ instance \in Alive(scene)
    /\ LET r == getPublicInstance(scene, instance)
       IN /\ scene' = logFunctionCall("getPublicInstance", <<instance>>, r).scene
          /\ call' = Called("getPublicInstance", <<instance>>, r, scene)
    /\ UNCHANGED system

\* The event being handled when the reconciler asks for its priority:
\* window.event && window.event.type, None when no event is active.
ActiveEvents == {None, "click", "mouseover"}

\* DiscreteEventPriority, ContinuousEventPriority and DefaultEventPriority of
\* react-reconciler/constants.
Priority(class) == [tag |-> "priority", class |-> class]

DiscreteEventPriority == Priority("discrete")

ContinuousEventPriority == Priority("continuous")

DefaultEventPriority == Priority("default")

CallGetCurrentEventPriority(event) ==
    /\ LET r == getCurrentEventPriority(scene)
       IN /\ scene' = logFunctionCall("getCurrentEventPriority", <<event>>, r).scene
          /\ call' = Called("getCurrentEventPriority", <<event>>, r, scene)
    /\ UNCHANGED system

InitNode == scene = EmptyScene /\ call = NoCall /\ SystemInit

NextNode ==
    \/ \E type \in Types, props \in NodeProps : CallCreateInstance(type, props, MaxCreate)
    \/ \E n \in Nodes, old \in UpdateProps, new \in UpdateProps : CallPrepareUpdate(n, old, new)
    \/ \E n \in Nodes : CallGetPublicInstance(n)
    \/ \E event \in ActiveEvents : CallGetCurrentEventPriority(event)

SpecNode == InitNode /\ [][NextNode]_vars

---------------------------------------------------------------------------
(* The reconciler calling the child-list functions: the tree-level         *)
(* specification                                                           *)

\* The reconciler moves a node only within the parent its fiber belongs to.
Placeable(p, c) ==
    /\ c \in Alive(scene)
    /\ scene.parent[c] \in {None, p}
    /\ p \notin Subtree(scene, c)

CallAppendChild(p, c) ==
    /\ p \in Alive(scene)
    /\ Placeable(p, c)
    /\ LET r == appendChild(scene, p, c)
       IN /\ scene' = logFunctionCall("appendChild", <<p, c>>, r).scene
          /\ call' = Called("appendChild", <<p, c>>, r, scene)
    /\ UNCHANGED system

CallAppendChildToContainer(p, c) ==
    /\ p \in Containers
    /\ Placeable(p, c)
    /\ LET r == appendChildToContainer(scene, p, c)
       IN /\ scene' = logFunctionCall("appendChildToContainer", <<p, c>>, r).scene
          /\ call' = Called("appendChildToContainer", <<p, c>>, r, scene)
    /\ UNCHANGED system

CallInsertBefore(p, c, b) ==
    /\ p \in Alive(scene)
    /\ Placeable(p, c)
    /\ b # c
    /\ InList(scene.children[p], b)
    /\ LET r == insertBefore(scene, p, c, b)
       IN /\ scene' = logFunctionCall("insertBefore", <<p, c, b>>, r).scene
          /\ call' = Called("insertBefore", <<p, c, b>>, r, scene)
    /\ UNCHANGED system

CallInsertInContainerBefore(p, c, b) ==
    /\ p \in Containers
    /\ Placeable(p, c)
    /\ b # c
    /\ InList(scene.children[p], b)
    /\ LET r == insertInContainerBefore(scene, p, c, b)
       IN /\ scene' = logFunctionCall("insertInContainerBefore", <<p, c, b>>, r).scene
          /\ call' = Called("insertInContainerBefore", <<p, c, b>>, r, scene)
    /\ UNCHANGED system

CallRemoveChild(p, c) ==
    /\ p \in Alive(scene)
    /\ InList(scene.children[p], c)
    /\ LET r == removeChild(scene, p, c)
       IN /\ scene' = logFunctionCall("removeChild", <<p, c>>, r).scene
          /\ call' = Called("removeChild", <<p, c>>, r, scene)
    /\ UNCHANGED system

CallRemoveChildFromContainer(p, c) ==
    /\ p \in Containers
    /\ InList(scene.children[p], c)
    /\ LET r == removeChildFromContainer(scene, p, c)
       IN /\ scene' = logFunctionCall("removeChildFromContainer", <<p, c>>, r).scene
          /\ call' = Called("removeChildFromContainer", <<p, c>>, r, scene)
    /\ UNCHANGED system

CallClearContainer(p) ==
    /\ p \in Containers
    /\ LET r == clearContainer(scene, p)
       IN /\ scene' = logFunctionCall("clearContainer", <<p>>, r).scene
          /\ call' = Called("clearContainer", <<p>>, r, scene)
    /\ UNCHANGED system

\* The reconciler hides and shows the nodes of a mounted subtree.
CallHideInstance(n) ==
    /\ n \in Alive(scene)
    /\ scene.parent[n] # None
    /\ LET r == hideInstance(scene, n)
       IN /\ scene' = logFunctionCall("hideInstance", <<n>>, r).scene
          /\ call' = Called("hideInstance", <<n>>, r, scene)
    /\ UNCHANGED system

\* unhideInstance follows a hideInstance of the same node.
CallUnhideInstance(n, props) ==
    /\ call.fn = "hideInstance"
    /\ call.args = <<n>>
    /\ LET r == unhideInstance(scene, n, props)
       IN /\ scene' = logFunctionCall("unhideInstance", <<n, props>>, r).scene
          /\ call' = Called("unhideInstance", <<n, props>>, r, call.before)
    /\ UNCHANGED system

InitTree == scene = EmptyScene /\ call = NoCall /\ SystemInit

NextTree ==
    \/ CallCreateInstance(TYPE_RECTANGLE, Props({}, 0, 0, 0, 0), MaxTreeNodes)
    \/ \E p \in Nodes, c \in Nodes : CallAppendChild(p, c)
    \/ \E p \in Containers, c \in Nodes : CallAppendChildToContainer(p, c)
    \/ \E p \in Nodes, c \in Nodes, b \in Nodes : CallInsertBefore(p, c, b)
    \/ \E p \in Containers, c \in Nodes, b \in Nodes : CallInsertInContainerBefore(p, c, b)
    \/ \E p \in Nodes, c \in Nodes : CallRemoveChild(p, c)
    \/ \E p \in Containers, c \in Nodes : CallRemoveChildFromContainer(p, c)
    \/ \E p \in Containers : CallClearContainer(p)
    \/ \E n \in Nodes : CallHideInstance(n)
    \/ \E n \in Nodes : CallUnhideInstance(n, Props({}, 0, 0, 0, 0))

SpecTree == InitTree /\ [][NextTree]_vars

---------------------------------------------------------------------------
(* The reconciler, as far as the program drives it *)

\* An element with elements nested in it, and an element with none.
Nested(key, type, props, children) ==
    [key |-> key, type |-> type, props |-> props, children |-> children]

Element(key, type, props) == Nested(key, type, props, <<>>)

\* The elements rendered: one whose x changes between renders, and one whose
\* type is a rectangle or a type the host configuration does not know.
Elements ==
    {Element("a", TYPE_RECTANGLE, RectA), Element("a", TYPE_RECTANGLE, RectB),
     Element("b", TYPE_RECTANGLE, RectA), Element("b", TYPE_OTHER, RectA)}

RECURSIVE SeqsUpTo(_, _)
SeqsUpTo(S, n) ==
    IF n = 0 THEN {<<>>}
    ELSE LET shorter == SeqsUpTo(S, n - 1)
         IN shorter \cup {Append(q, e) : q \in shorter, e \in S}

\* A tree description: keyed elements below the root, no key twice.
Descriptions ==
    {d \in SeqsUpTo(Elements, MaxElems) :
        \A i \in 1..Len(d), j \in 1..Len(d) : d[i].key = d[j].key => i = j}

\* What is rendered into a container: any description into the stage, and at
\* most one element into the second container.
DescriptionsFor(c) == IF c = "A" THEN Descriptions ELSE {d \in Descriptions : Len(d) <= 1}

\* The token updateContainer returns for the update it queued.
Lane(id) == [tag |-> "lane", update |-> id]

\* reconciler.createContainer(containerInfo): a new root, and its handle.
createContainer(eng, containerInfo) ==
    [engine |-> [eng EXCEPT !.roots = Append(@, [containerInfo |-> containerInfo,
                                                 current |-> <<>>,
                                                 pending |-> <<>>]),
                            !.created[containerInfo] = @ + 1],
     result |-> Len(eng.roots) + 1]

\* reconciler.updateContainer(element, root, parentComponent, callback): the
\* update is queued on the root and scheduled.
updateContainer(eng, element, root, parentComponent, callback, id) ==
    [engine |-> [eng EXCEPT !.roots[root].pending =
                                Append(@, [id |-> id, element |-> element, callback |-> callback])],
     result |-> Lane(id)]

RECURSIVE SumLen(_, _)
SumLen(roots, i) == IF i > Len(roots) THEN 0 ELSE Len(roots[i].pending) + SumLen(roots, i + 1)

\* The updates queued on all roots.
Queued(eng) == SumLen(eng.roots, 1)

FiberIndex(fibers, key) ==
    IF \E j \in 1..Len(fibers) : fibers[j].key = key
    THEN CHOOSE j \in 1..Len(fibers) : fibers[j].key = key
    ELSE 0

\* The committed fibers the new fibers do not keep: their nodes are removed.
Deletions(current, fibers) ==
    SelectSeq(current, LAMBDA old : ~\E k \in 1..Len(fibers) :
                                        ~fibers[k].isNew /\ fibers[k].stateNode = old.stateNode)

\* Initial tree building: the nodes of a new element's children are handed to
\* appendInitialChild, in order, with the element's new node as the parent.
RECURSIVE AppendInitialChildren(_, _, _, _)
AppendInitialChildren(sc, parentInstance, fibers, i) ==
    IF i > Len(fibers) THEN sc
    ELSE AppendInitialChildren(appendInitialChild(sc, parentInstance, fibers[i].stateNode).scene,
                               parentInstance, fibers, i + 1)

\* The render phase over the children of a root or of an element: in order, an
\* element is begun (child host context, text content test), the elements nested
\* in it are rendered, and it is completed: an element whose key and type a
\* committed fiber has keeps that fiber's node and has its update prepared; any
\* other element gets a node created, to which the nodes of its children are
\* handed. Below a new element nothing is placed in the commit. A throw ends the
\* phase.
RECURSIVE RenderChildren(_, _, _, _, _)
RenderChildren(acc, current, desc, i, lastPlaced) ==
    IF i > Len(desc) \/ acc.threw THEN acc
    ELSE LET el == desc[i]
             j == FiberIndex(current, el.key)
             reuse == j > 0 /\ current[j].type = el.type
             h == getChildHostContext(acc.scene, acc.context, el.type, acc.container)
             t == shouldSetTextContent(h.scene, el.type, el.props)
             below == RenderChildren([acc EXCEPT !.scene = t.scene, !.fibers = <<>>,
                                                 !.mounting = @ \/ ~reuse],
                                     IF reuse THEN current[j].children ELSE <<>>,
                                     el.children, 1, 0)
             back == [below EXCEPT !.fibers = acc.fibers, !.mounting = acc.mounting]
         IN IF below.threw THEN back
            ELSE IF reuse
            THEN LET old == current[j]
                     r == prepareUpdate(below.scene, old.stateNode, el.type, old.props, el.props)
                     moved == j < lastPlaced
                     fiber == [key |-> el.key, type |-> el.type, props |-> el.props,
                               prevProps |-> old.props, stateNode |-> old.stateNode,
                               placement |-> moved, payload |-> r.result, isNew |-> FALSE,
                               children |-> below.fibers,
                               deletions |-> Deletions(old.children, below.fibers)]
                 IN RenderChildren([back EXCEPT !.scene = r.scene,
                                                !.fibers = Append(@, fiber),
                                                !.prepared = Append(@, [node |-> old.stateNode,
                                                                        result |-> r.result])],
                                   current, desc, i + 1, IF moved THEN lastPlaced ELSE j)
            ELSE LET r == createInstance(below.scene, el.type, el.props)
                 IN IF r.threw
                    THEN [back EXCEPT !.threw = TRUE, !.error = r.result]
                    ELSE LET node == r.result.ref
                             a == AppendInitialChildren(r.scene, node, below.fibers, 1)
                             f == finalizeInitialChildren(a, node, el.type, el.props)
                             fiber == [key |-> el.key, type |-> el.type, props |-> el.props,
                                       prevProps |-> el.props, stateNode |-> node,
                                       placement |-> ~acc.mounting, payload |-> Undefined,
                                       isNew |-> TRUE, children |-> below.fibers,
                                       deletions |-> <<>>]
                         IN RenderChildren([back EXCEPT !.scene = f.scene,
                                                        !.fibers = Append(@, fiber),
                                                        !.created = Append(@, node)],
                                           current, desc, i + 1, lastPlaced)

\* The nodes a render phase creates for desc when nothing throws: one for every
\* element no committed fiber can be kept for, and for every element below it.
RECURSIVE CreationsFrom(_, _, _)
CreationsFrom(current, desc, i) ==
    IF i > Len(desc) THEN 0
    ELSE LET j == FiberIndex(current, desc[i].key)
             reuse == j > 0 /\ current[j].type = desc[i].type
         IN (IF reuse THEN CreationsFrom(current[j].children, desc[i].children, 1)
                      ELSE 1 + CreationsFrom(<<>>, desc[i].children, 1))
            + CreationsFrom(current, desc, i + 1)

Creations(current, desc) == CreationsFrom(current, desc, 1)

\* The render phase of a pass on a root: the root's host context is taken, then
\* each element is begun (child host context, text content test) and completed
\* (a node is created, or an update is computed for the node that is kept).
RenderPhase(sc, container, current, desc) ==
    LET c == getRootHostContext(sc, container)
    IN RenderChildren([scene |-> c.scene, container |-> container, context |-> c.result,
                       mounting |-> FALSE,
                       fibers |-> <<>>, threw |-> FALSE, error |-> Undefined,
                       created |-> <<>>, prepared |-> <<>>], current, desc, 1, 0)

\* The node of the first fiber after i that stays in place, if any.
HostSibling(fibers, i) ==
    LET later == {j \in (i + 1)..Len(fibers) : ~fibers[j].placement}
    IN IF later = {} THEN None
       ELSE fibers[CHOOSE j \in later : \A k \in later : j <= k].stateNode

Op(fn, args) == [fn |-> fn, args |-> args]

\* The commit calls for the fibers below parent, a container or a node: for each
\* fiber the calls below it (its deleted children are removed from its node,
\* then its children's calls), then its placement, then its update.
RECURSIVE FiberOps(_, _, _)
FiberOps(parent, fibers, i) ==
    IF i > Len(fibers) THEN <<>>
    ELSE LET f == fibers[i]
             top == parent \in Containers
             sibling == HostSibling(fibers, i)
             below == [k \in 1..Len(f.deletions) |->
                          Op("removeChild", <<f.stateNode, f.deletions[k].stateNode>>)]
                      \o FiberOps(f.stateNode, f.children, 1)
             place == IF ~f.placement THEN <<>>
                      ELSE IF sibling = None
                           THEN <<Op(IF top THEN "appendChildToContainer" ELSE "appendChild",
                                     <<parent, f.stateNode>>)>>
                           ELSE <<Op(IF top THEN "insertInContainerBefore" ELSE "insertBefore",
                                     <<parent, f.stateNode, sibling>>)>>
             update == IF Falsy(f.payload) THEN <<>>
                       ELSE <<Op("commitUpdate", <<f.stateNode, f.payload, f.type, f.prevProps, f.props>>)>>
         IN below \o place \o update \o FiberOps(parent, fibers, i + 1)

\* The commit phase's calls, in order: the container is cleared when nothing was
\* mounted, deleted nodes are removed, then each fiber is placed and updated.
CommitOps(container, current, fibers) ==
    LET dels == Deletions(current, fibers)
    IN (IF current = <<>> THEN <<Op("clearContainer", <<container>>)>> ELSE <<>>)
       \o [k \in 1..Len(dels) |-> Op("removeChildFromContainer", <<container, dels[k].stateNode>>)]
       \o FiberOps(container, fibers, 1)

ApplyOp(sc, op) ==
    CASE op.fn = "clearContainer" -> clearContainer(sc, op.args[1]).scene
      [] op.fn = "removeChildFromContainer" -> removeChildFromContainer(sc, op.args[1], op.args[2]).scene
      [] op.fn = "appendChildToContainer" -> appendChildToContainer(sc, op.args[1], op.args[2]).scene
      [] op.fn = "insertInContainerBefore" ->
             insertInContainerBefore(sc, op.args[1], op.args[2], op.args[3]).scene
      [] op.fn = "removeChild" -> removeChild(sc, op.args[1], op.args[2]).scene
      [] op.fn = "appendChild" -> appendChild(sc, op.args[1], op.args[2]).scene
      [] op.fn = "insertBefore" -> insertBefore(sc, op.args[1], op.args[2], op.args[3]).scene
      [] op.fn = "commitUpdate" ->
             commitUpdate(sc, op.args[1], op.args[2], op.args[3], op.args[4], op.args[5]).scene

\* What the host functions have been called for on a node so far: nothing, its
\* creation, its placement under a parent, its removal. A call that does not
\* follow that order is kept as "broken".
Life(life, n, from, to) ==
    [life EXCEPT ![n] = IF @ \in from THEN (IF to = None THEN @ ELSE to) ELSE "broken"]

\* appendInitialChild places the nodes of a new element's children under it.
RECURSIVE LifeInitialChildren(_, _, _)
LifeInitialChildren(life, fibers, i) ==
    IF i > Len(fibers) THEN life
    ELSE LifeInitialChildren(Life(life, fibers[i].stateNode, {"created"}, "mounted"),
                             fibers, i + 1)

\* The render phase's calls on nodes, element by element, children first:
\* createInstance returns the node of a new fiber, prepareUpdate is given the
\* node of a kept fiber.
RECURSIVE LifeAfterRender(_, _, _)
LifeAfterRender(life, fibers, i) ==
    IF i > Len(fibers) THEN life
    ELSE LET f == fibers[i]
             below == LifeAfterRender(life, f.children, 1)
         IN LifeAfterRender(IF f.isNew
                            THEN LifeInitialChildren(Life(below, f.stateNode, {"none"}, "created"),
                                                     f.children, 1)
                            ELSE Life(below, f.stateNode, {"mounted"}, None),
                            fibers, i + 1)

LifeAfterOp(life, op) ==
    CASE op.fn = "clearContainer" -> life
      [] op.fn \in {"removeChildFromContainer", "removeChild"} ->
             Life(life, op.args[2], {"mounted"}, "removed")
      [] op.fn \in {"appendChildToContainer", "appendChild"} ->
             Life(life, op.args[2], {"created", "mounted"}, "mounted")
      [] op.fn \in {"insertInContainerBefore", "insertBefore"} ->
             Life(Life(life, op.args[2], {"created", "mounted"}, "mounted"),
                  op.args[3], {"mounted"}, None)
      [] op.fn = "commitUpdate" -> Life(life, op.args[1], {"mounted"}, None)

RECURSIVE LifeAfterOps(_, _, _)
LifeAfterOps(life, ops, i) ==
    IF i > Len(ops) THEN life ELSE LifeAfterOps(LifeAfterOp(life, ops[i]), ops, i + 1)

RECURSIVE ApplyOps(_, _, _)
ApplyOps(sc, ops, i) ==
    IF i > Len(ops) THEN sc ELSE ApplyOps(ApplyOp(sc, ops[i]), ops, i + 1)

\* The nodes of the fibers and of all fibers below them, one entry per fiber.
RECURSIVE NodeList(_, _)
NodeList(fibers, i) ==
    IF i > Len(fibers) THEN <<>>
    ELSE <<fibers[i].stateNode>> \o NodeList(fibers[i].children, 1) \o NodeList(fibers, i + 1)

\* The fibers a commit leaves as the root's committed ones.
RECURSIVE Committed(_)
Committed(fibers) ==
    [k \in 1..Len(fibers) |-> [key |-> fibers[k].key, type |-> fibers[k].type,
                               props |-> fibers[k].props, stateNode |-> fibers[k].stateNode,
                               children |-> Committed(fibers[k].children)]]

---------------------------------------------------------------------------
(* ReactPixi.render (src/src/react-pixi/index.js) *)

\* The completion callback passed by render call id.
Callback(id) == [tag |-> "function", id |-> id]

\* A render that asks for a new root on every call.
renderAlwaysCreates(st, reactElement, pixiContainer, callback, id) ==
    LET made == createContainer(st.engine, pixiContainer)
        roots == [st.rootContainer EXCEPT ![pixiContainer] = made.result]
        sent == updateContainer(made.engine, reactElement, roots[pixiContainer], Null, callback, id)
    IN [rootContainer |-> roots,
        engine |-> sent.engine,
        trace |-> <<[fn |-> "createContainer", container |-> pixiContainer,
                     returned |-> made.result],
                    [fn |-> "updateContainer", element |-> reactElement,
                     root |-> roots[pixiContainer], callback |-> callback,
                     returned |-> sent.result]>>,
        result |-> sent.result]

\* A render that submits the element only when the root existed already.
renderCreateOrUpdate(st, reactElement, pixiContainer, callback, id) ==
    LET fresh == st.rootContainer[pixiContainer] = NoHandle
        made == createContainer(st.engine, pixiContainer)
        sent == updateContainer(st.engine, reactElement, st.rootContainer[pixiContainer],
                                Null, callback, id)
    IN IF fresh
       THEN [rootContainer |-> [st.rootContainer EXCEPT ![pixiContainer] = made.result],
             engine |-> made.engine,
             trace |-> <<[fn |-> "createContainer", container |-> pixiContainer,
                          returned |-> made.result]>>,
             result |-> Undefined]
       ELSE [rootContainer |-> st.rootContainer,
             engine |-> sent.engine,
             trace |-> <<[fn |-> "updateContainer", element |-> reactElement,
                          root |-> st.rootContainer[pixiContainer], callback |-> callback,
                          returned |-> sent.result]>>,
             result |-> sent.result]

\* A render that does not pass its callback on.
renderDropsCallback(st, reactElement, pixiContainer, callback, id) ==
    LET fresh == st.rootContainer[pixiContainer] = NoHandle
        made == createContainer(st.engine, pixiContainer)
        roots == IF fresh
                 THEN [st.rootContainer EXCEPT ![pixiContainer] = made.result]
                 ELSE st.rootContainer
        eng == IF fresh THEN made.engine ELSE st.engine
        sent == updateContainer(eng, reactElement, roots[pixiContainer], Null, Undefined, id)
    IN [rootContainer |-> roots,
        engine |-> sent.engine,
        trace |-> (IF fresh
                   THEN <<[fn |-> "createContainer", container |-> pixiContainer,
                           returned |-> made.result]>>
                   ELSE <<>>)
                  \o <<[fn |-> "updateContainer", element |-> reactElement,
                        root |-> roots[pixiContainer], callback |-> Undefined,
                        returned |-> sent.result]>>,
        result |-> sent.result]

\* A render that keeps one root handle for all containers instead of one on each.
renderSharedRoot(st, reactElement, pixiContainer, callback, id) ==
    LET cached == {c \in Containers : st.rootContainer[c] # NoHandle}
        fresh == cached = {}
        made == createContainer(st.engine, pixiContainer)
        handle == IF fresh THEN made.result ELSE st.rootContainer[CHOOSE c \in cached : TRUE]
        roots == [st.rootContainer EXCEPT ![pixiContainer] = handle]
        eng == IF fresh THEN made.engine ELSE st.engine
        sent == updateContainer(eng, reactElement, handle, Null, callback, id)
    IN [rootContainer |-> roots,
        engine |-> sent.engine,
        trace |-> (IF fresh
                   THEN <<[fn |-> "createContainer", container |-> pixiContainer,
                           returned |-> made.result]>>
                   ELSE <<>>)
                  \o <<[fn |-> "updateContainer", element |-> reactElement,
                        root |-> handle, callback |-> callback,
                        returned |-> sent.result]>>,
        result |-> sent.result]

render(st, reactElement, pixiContainer, callback, id) ==
    LET fresh == st.rootContainer[pixiContainer] = NoHandle
        made == createContainer(st.engine, pixiContainer)
        roots == IF fresh
                 THEN [st.rootContainer EXCEPT ![pixiContainer] = made.result]
                 ELSE st.rootContainer
        eng == IF fresh THEN made.engine ELSE st.engine
        sent == updateContainer(eng, reactElement, roots[pixiContainer], Null, callback, id)
    IN [rootContainer |-> roots,
        engine |-> sent.engine,
        trace |-> (IF fresh
                   THEN <<[fn |-> "createContainer", container |-> pixiContainer,
                           returned |-> made.result]>>
                   ELSE <<>>)
                  \o <<[fn |-> "updateContainer", element |-> reactElement,
                        root |-> roots[pixiContainer], callback |-> callback,
                        returned |-> sent.result]>>,
        result |-> sent.result]

---------------------------------------------------------------------------
(* The render specification: render calls and the reconciler's passes *)

Resting == wip.phase = "idle"

Render(reactElement, pixiContainer, withCallback) ==
    /\ session.calls < MaxRenders
    /\ Resting
    /\ Queued(engine) < MaxPending
    /\ LET id == session.calls + 1
           callback == IF withCallback THEN Callback(id) ELSE Undefined
           r == render([rootContainer |-> rootContainer, engine |-> engine],
                       reactElement, pixiContainer, callback, id)
       IN /\ rootContainer' = r.rootContainer
          /\ engine' = r.engine
          /\ session' = [calls |-> id, container |-> pixiContainer, element |-> reactElement,
                         callback |-> callback, trace |-> r.trace, result |-> r.result,
                         handleBefore |-> rootContainer[pixiContainer]]
          /\ done' = IF withCallback THEN [done EXCEPT !.passed = @ \cup {id}] ELSE done
    /\ UNCHANGED <<scene, call, wip>>

\* The reconciler takes the updates queued on a root and runs its render phase
\* on the last element submitted. A throw of createInstance ends the pass: its
\* updates are dropped and nothing is committed.
BeginPass(root) ==
    /\ Resting
    /\ root \in 1..Len(engine.roots)
    /\ engine.roots[root].pending # <<>>
    /\ LET r == engine.roots[root]
           queued == r.pending
           desc == queued[Len(queued)].element
           ids == {queued[k].id : k \in 1..Len(queued)}
           callbacks == {queued[k].callback.id :
                            k \in {m \in 1..Len(queued) : queued[m].callback.tag = "function"}}
           out == RenderPhase(scene, r.containerInfo, r.current, desc)
       IN /\ scene.next + Creations(r.current, desc) <= MaxNodes
          /\ scene' = out.scene
          /\ engine' = [engine EXCEPT !.roots[root].pending = <<>>]
          /\ wip' = [phase |-> IF out.threw THEN "failed" ELSE "rendered",
                     root |-> root, ids |-> ids, callbacks |-> callbacks, desc |-> desc,
                     before |-> scene, handles |-> rootContainer, old |-> r.current,
                     fibers |-> out.fibers,
                     error |-> out.error, created |-> out.created,
                     prepared |-> out.prepared, ops |-> <<>>]
          /\ done' = [done EXCEPT !.life = LifeAfterRender(@, out.fibers, 1)]
    /\ session' = [calls |-> session.calls]
    /\ UNCHANGED <<call, rootContainer>>

\* The commit phase of the pass: its host calls run in order, and the pass's
\* fibers become the root's committed fibers.
CommitPass ==
    /\ wip.phase = "rendered"
    /\ LET r == engine.roots[wip.root]
           ops == CommitOps(r.containerInfo, r.current, wip.fibers)
       IN /\ scene' = ApplyOps(scene, ops, 1)
          /\ engine' = [engine EXCEPT !.roots[wip.root].current = Committed(wip.fibers)]
          /\ wip' = [wip EXCEPT !.phase = "committed", !.ops = ops]
          /\ done' = [done EXCEPT !.committed = @ \cup wip.ids,
                                   !.life = LifeAfterOps(@, ops, 1)]
    /\ UNCHANGED <<call, rootContainer, session>>

\* After the commit the reconciler runs the callbacks of the committed updates.
FinishPass ==
    /\ wip.phase = "committed"
    /\ wip' = Idle
    /\ done' = [done EXCEPT !.invoked = @ \cup wip.callbacks]
    /\ UNCHANGED <<scene, call, rootContainer, engine, session>>

\* The error of a failed pass reaches the caller; the reconciler is at rest again.
FailPass ==
    /\ wip.phase = "failed"
    /\ wip' = Idle
    /\ UNCHANGED <<scene, call, rootContainer, engine, session, done>>

Init == scene = EmptyScene /\ call = NoCall /\ SystemInit

Next ==
    \/ \E c \in Containers, cb \in BOOLEAN : \E el \in DescriptionsFor(c) : Render(el, c, cb)
    \/ \E root \in 1..MaxRenders : BeginPass(root)
    \/ CommitPass
    \/ FinishPass
    \/ FailPass

Spec == Init /\ [][Next]_vars

\* The reconciler's work loop does not stop while it has work: a queued update
\* is taken, a rendered pass is committed, the callbacks of a commit are run.
\* The renders of this specification are of at most one element.
NextLive ==
    \/ \E c \in Containers, cb \in BOOLEAN :
          \E el \in {d \in Descriptions : Len(d) <= 1} : Render(el, c, cb)
    \/ \E root \in 1..MaxRenders : BeginPass(root)
    \/ CommitPass
    \/ FinishPass
    \/ FailPass

LiveSpec ==
    /\ Init
    /\ [][NextLive]_vars
    /\ WF_vars(CommitPass)
    /\ WF_vars(FinishPass)
    /\ WF_vars(FailPass)

\* Tree descriptions with elements nested in elements: a rectangle with one or
\* two rectangles in it, a rectangle with an element of an unknown type in it,
\* the same rectangle with nothing in it, and a second rectangle beside it.
NestedElements ==
    {Nested("a", TYPE_RECTANGLE, RectA, <<Element("c", TYPE_RECTANGLE, RectB)>>),
     Nested("a", TYPE_RECTANGLE, RectA, <<Element("c", TYPE_RECTANGLE, RectB),
                                          Element("d", TYPE_RECTANGLE, RectA)>>),
     Nested("a", TYPE_RECTANGLE, RectA, <<Element("c", TYPE_OTHER, RectA)>>),
     Element("a", TYPE_RECTANGLE, RectA),
     Element("b", TYPE_RECTANGLE, RectA)}

NestedDescriptions ==
    {d \in SeqsUpTo(NestedElements, MaxElems) :
        /\ d # <<>>
        /\ \A i \in 1..Len(d), j \in 1..Len(d) : d[i].key = d[j].key => i = j}

\* The render specification with nested elements, rendered into the stage.
NextNested ==
    \/ \E cb \in BOOLEAN : \E el \in NestedDescriptions : Render(el, "A", cb)
    \/ \E root \in 1..MaxRenders : BeginPass(root)
    \/ CommitPass
    \/ FinishPass
    \/ FailPass

SpecNested == Init /\ [][NextNested]_vars

---------------------------------------------------------------------------
(* Claims about single host functions *)

Attached(sc, n) == sc.parent[n] # None \/ \E o \in Objects : InList(sc.children[o], n)

\* C4: createInstance of a RECTANGLE draws the rectangle with every supplied
\* property at its supplied value and every omitted one at its default (x = 0,
\* y = 0, width = 100, height = 100), and returns a new node that has no parent.
C4_CreateFillsDefaults ==
    (call.fn = "createInstance" /\ call.args[1] = TYPE_RECTANGLE) =>
        LET props == call.args[2]
        IN /\ ~call.threw
           /\ call.result.tag = "object"
           /\ LET n == call.result.ref
              IN /\ n \notin Alive(call.before)
                 /\ n \in Alive(scene)
                 /\ scene.drawn[n].x = (IF "x" \in DOMAIN props THEN props["x"] ELSE 0)
                 /\ scene.drawn[n].y = (IF "y" \in DOMAIN props THEN props["y"] ELSE 0)
                 /\ scene.drawn[n].width = (IF "width" \in DOMAIN props THEN props["width"] ELSE 100)
                 /\ scene.drawn[n].height = (IF "height" \in DOMAIN props THEN props["height"] ELSE 100)
                 /\ ~Attached(scene, n)

\* A rectangle was created from a mapping that supplies x and height only.
C4_Witness ==
    /\ call.fn = "createInstance"
    /\ ~call.threw
    /\ DOMAIN call.args[2] = {"x", "height"}
    /\ scene.drawn[call.result.ref].width = 100
    /\ scene.drawn[call.result.ref].height = 60

\* The properties of new whose value differs from the one old gives them.
Changed(old, new) == {k \in DOMAIN new : k \notin DOMAIN old \/ old[k] # new[k]}

\* C6: prepareUpdate returns "no update" for equal mappings and otherwise a
\* payload holding exactly the changed properties, and leaves the scene alone.
C6_PrepareUpdateDiffs ==
    call.fn = "prepareUpdate" =>
        LET old == call.args[2]
            new == call.args[3]
        IN /\ ~call.threw
           /\ scene = call.before
           /\ IF old = new
              THEN Falsy(call.result)
              ELSE /\ call.result.tag = "payload"
                   /\ call.result.props = [k \in Changed(old, new) |-> new[k]]

RemainingOrder(list, c) == Without(list, c)

\* C9: after appendChild(parent, child) the child is the last element of the
\* parent's child list and occurs in it once, also when it was in the list
\* before; the other children keep their order.
C9_AppendChildLast ==
    call.fn \in {"appendChild", "appendChildToContainer"} =>
        LET p == call.args[1]
            c == call.args[2]
            before == call.before.children[p]
            after == scene.children[p]
        IN /\ Len(after) > 0
           /\ after[Len(after)] = c
           /\ Count(after, c) = 1
           /\ RemainingOrder(after, c) = RemainingOrder(before, c)
           /\ scene.parent[c] = p

\* A child that stood first among three was appended again.
C9_Witness ==
    /\ call.fn \in {"appendChild", "appendChildToContainer"}
    /\ Len(call.before.children[call.args[1]]) = 3
    /\ call.before.children[call.args[1]][1] = call.args[2]
    /\ Len(scene.children[call.args[1]]) = 3

\* C10: after insertBefore(parent, C, S), S a child of parent, C occurs once in
\* the parent's child list, immediately before S; the others keep their order.
C10_InsertBeforePlaces ==
    call.fn = "insertBefore" =>
        LET p == call.args[1]
            c == call.args[2]
            b == call.args[3]
            before == call.before.children[p]
            after == scene.children[p]
        IN /\ Count(after, c) = 1
           /\ InList(after, b)
           /\ IndexOf(after, c) + 1 = IndexOf(after, b)
           /\ RemainingOrder(after, c) = RemainingOrder(before, c)

---------------------------------------------------------------------------
(* Claims about render and the passes it starts *)

Rendered == session.calls > 0 /\ "trace" \in DOMAIN session

TraceOf(fn) == {k \in 1..Len(session.trace) : session.trace[k].fn = fn}

RootSingletonState ==
    /\ \A c \in Containers :
          /\ engine.created[c] <= 1
          /\ (rootContainer[c] = NoHandle) = (engine.created[c] = 0)
          /\ rootContainer[c] # NoHandle =>
                /\ rootContainer[c] \in 1..Len(engine.roots)
                /\ engine.roots[rootContainer[c]].containerInfo = c
    /\ Rendered =>
          /\ \A k \in TraceOf("updateContainer") :
                session.trace[k].root = rootContainer[session.container]
          /\ (session.handleBefore # NoHandle) =>
                /\ TraceOf("createContainer") = {}
                /\ rootContainer[session.container] = session.handleBefore
          /\ (session.handleBefore = NoHandle) =>
                \A k \in TraceOf("createContainer") :
                    session.trace[k].returned = rootContainer[session.container]

\* C1: createContainer is called at most once per container, on the first
\* render; the handle it returned is cached on the container and used by every
\* later render; only a render call writes the cached handle, and only once.
C1_RootSingleton ==
    /\ []RootSingletonState
    /\ [][\A c \in Containers :
            /\ rootContainer[c] # NoHandle => rootContainer'[c] = rootContainer[c]
            /\ rootContainer'[c] # rootContainer[c] =>
                  /\ session'.calls = session.calls + 1
                  /\ session'.container = c]_vars

\* A second render against a container that has its handle.
C1_Witness ==
    /\ Rendered
    /\ session.calls = 2
    /\ session.handleBefore # NoHandle
    /\ engine.created[session.container] = 1

\* C2: a render call submits one update of its element against the container's
\* cached handle, after the handle was created when it had to be, and returns
\* the token the submission returned.
C2_RenderSubmitsOnce ==
    Rendered =>
        LET t == session.trace
            h == rootContainer[session.container]
        IN /\ Cardinality(TraceOf("updateContainer")) = 1
           /\ t[Len(t)].fn = "updateContainer"
           /\ t[Len(t)].element = session.element
           /\ h # NoHandle
           /\ t[Len(t)].root = h
           /\ session.result = t[Len(t)].returned
           /\ session.result.tag = "lane"
           /\ \A k \in TraceOf("createContainer") : k < Len(t)
           /\ (session.handleBefore = NoHandle) = (TraceOf("createContainer") # {})
           /\ LET q == engine.roots[h].pending
              IN /\ q # <<>>
                 /\ q[Len(q)].id = session.calls
                 /\ q[Len(q)].element = session.element
                 /\ Cardinality({k \in 1..Len(q) : q[k].id = session.calls}) = 1

\* A render call that created the handle and submitted its element.
C2_Witness ==
    /\ Rendered
    /\ Len(session.trace) = 2
    /\ session.element # <<>>
    /\ session.result = Lane(session.calls)

CallbackSafe ==
    /\ done.invoked \subseteq (done.committed \cap done.passed)
    /\ Rendered =>
          \A k \in TraceOf("updateContainer") : session.trace[k].callback = session.callback
    /\ wip.phase \in {"rendered", "committed"} =>
          /\ wip.callbacks = wip.ids \cap done.passed
          /\ wip.callbacks \cap done.invoked = {}

\* C3: the callback passed to render is passed on with the update and is run
\* once the commit of the update's pass is done: not before the pass's commit
\* calls were made, and eventually after them.
C3_CallbackAfterCommit ==
    /\ []CallbackSafe
    /\ \A id \in 1..MaxRenders :
          (id \in done.committed /\ id \in done.passed) ~> (id \in done.invoked)

\* The callback of a render call was run after its pass placed a node.
C3_Witness ==
    /\ done.invoked # {}
    /\ \E c \in Containers : scene.children[c] # <<>>

\* C5: a pass that has to create an element of an unknown type fails with the
\* error createInstance throws; no node is returned for the element, no commit
\* call is made, and every child list is as it was before the pass.
C5_UnknownTypeAborts ==
    /\ wip.phase \in {"rendered", "committed"} =>
          \A i \in 1..Len(wip.desc) : wip.desc[i].type # TYPE_OTHER
    /\ wip.phase = "failed" =>
          /\ wip.error.tag = "error"
          /\ \E i \in 1..Len(wip.desc) :
                /\ wip.desc[i].type = TYPE_OTHER
                /\ Len(wip.fibers) = i - 1
          /\ wip.ops = <<>>
          /\ scene.children = wip.before.children
          /\ scene.parent = wip.before.parent
          /\ \A k \in 1..Len(wip.created) : ~Attached(scene, wip.created[k])
          /\ engine.roots[wip.root].current = wip.old
          /\ wip.ids \cap done.committed = {}

\* A pass over a mounted container failed after it had created a node.
C5_Witness ==
    /\ wip.phase = "failed"
    /\ wip.old # <<>>
    /\ wip.created # <<>>
    /\ scene.children[engine.roots[wip.root].containerInfo] # <<>>

OpsOn(ops, fn, node) == {k \in 1..Len(ops) : ops[k].fn = fn /\ ops[k].args[1] = node}

Shows(sc, node, props) ==
    \A k \in DOMAIN props : sc.drawn[node][k] = props[k]

\* C7: when a pass commits an element whose properties changed, the element
\* keeps its node, one commitUpdate is applied to that node, and the node then
\* shows the new properties.
C7_CommitUpdateApplies ==
    wip.phase = "committed" =>
        \A i \in 1..Len(wip.fibers) :
            LET f == wip.fibers[i]
            IN (~f.isNew /\ f.prevProps # f.props) =>
                  /\ f.stateNode \notin {wip.created[k] : k \in 1..Len(wip.created)}
                  /\ Cardinality(OpsOn(wip.ops, "commitUpdate", f.stateNode)) = 1
                  /\ Shows(scene, f.stateNode, f.props)

SameDescription(fibers, desc) ==
    /\ Len(fibers) = Len(desc)
    /\ \A i \in 1..Len(desc) :
          /\ fibers[i].key = desc[i].key
          /\ fibers[i].type = desc[i].type
          /\ fibers[i].props = desc[i].props

NodeOps == {"appendChildToContainer", "insertInContainerBefore",
            "removeChildFromContainer", "commitUpdate"}

\* C8: a pass whose description is the one already committed prepares "no
\* update" for every node, creates no node, makes no commit call on a node and
\* leaves the scene as it was.
C8_RenderIdempotent ==
    (wip.phase = "committed" /\ SameDescription(wip.old, wip.desc)) =>
        /\ Len(wip.prepared) = Len(wip.desc)
        /\ \A k \in 1..Len(wip.prepared) : Falsy(wip.prepared[k].result)
        /\ wip.created = <<>>
        /\ \A k \in 1..Len(wip.ops) : wip.ops[k].fn \notin NodeOps
        /\ scene = wip.before

\* The pass of a second render of the same two elements was committed.
C8_Witness ==
    /\ wip.phase = "committed"
    /\ SameDescription(wip.old, wip.desc)
    /\ Len(wip.desc) = 2
    /\ Len(wip.prepared) = 2

---------------------------------------------------------------------------
(* Claims about removal and the live graph *)

\* C11: when a pass removes an element, the remove function is called once, on
\* the element's parent and for its node; after the commit the node is not in
\* the parent's child list, and the other children are in their order.
C11_RemoveChildDetaches ==
    wip.phase = "committed" =>
        LET c == engine.roots[wip.root].containerInfo
            dels == Deletions(wip.old, wip.fibers)
            gone == {dels[k].stateNode : k \in 1..Len(dels)}
        IN \A n \in gone :
              /\ Cardinality({k \in 1..Len(wip.ops) :
                                 /\ wip.ops[k].fn \in {"removeChild", "removeChildFromContainer"}
                                 /\ wip.ops[k].args = <<c, n>>}) = 1
              /\ ~InList(scene.children[c], n)
              /\ SelectSeq(scene.children[c], LAMBDA e : e \notin gone)
                    = SelectSeq(wip.before.children[c], LAMBDA e : e \notin gone)

\* The nodes in the live graph below a root's container.
LiveNodes(sc, container) == Subtree(sc, container) \ {container}

\* C12: after every completed pass each node in the live graph of a root is the
\* node of exactly one committed element of that root.
C12_LiveGraphMatchesElements ==
    wip.phase \in {"idle", "committed"} =>
        \A r \in 1..Len(engine.roots) :
            \A n \in LiveNodes(scene, engine.roots[r].containerInfo) :
                Cardinality({k \in 1..Len(engine.roots[r].current) :
                                engine.roots[r].current[k].stateNode = n}) = 1

---------------------------------------------------------------------------
(* Claims about the container functions, clearing and visibility *)

\* What the node-level function of a container function does with the same
\* arguments in the same scene graph.
NodeLevel(fn, sc, args) ==
    CASE fn = "appendChildToContainer" -> appendChild(sc, args[1], args[2])
      [] fn = "insertInContainerBefore" -> insertBefore(sc, args[1], args[2], args[3])
      [] fn = "removeChildFromContainer" -> removeChild(sc, args[1], args[2])

ContainerFunctions == {"appendChildToContainer", "insertInContainerBefore", "removeChildFromContainer"}

\* C13: a call of appendChildToContainer, insertInContainerBefore or
\* removeChildFromContainer leaves the scene graph, and returns, what appendChild,
\* insertBefore or removeChild leaves and returns for the same arguments.
C13_ContainerVariantsAgree ==
    call.fn \in ContainerFunctions =>
        LET r == NodeLevel(call.fn, call.before, call.args)
        IN /\ scene = r.scene
           /\ call.result = r.result
           /\ call.threw = r.threw

\* appendChildToContainer has moved a child of the container from the front of a
\* list of two or more to its end.
C13_Witness ==
    /\ call.fn = "appendChildToContainer"
    /\ Len(call.before.children[call.args[1]]) >= 2
    /\ call.before.children[call.args[1]][1] = call.args[2]
    /\ scene.children[call.args[1]][Len(scene.children[call.args[1]])] = call.args[2]
    /\ scene # call.before

\* C14: after clearContainer(container) the container has no children.
C14_ClearContainerEmpties ==
    call.fn = "clearContainer" => scene.children[call.args[1]] = <<>>

\* C15: after hideInstance(node) the node is not visible, after the
\* unhideInstance(node) that follows it the node is visible and the scene graph
\* is what it was before the hide; neither changes a parent or a child list.
C15_VisibilityToggles ==
    /\ call.fn \in {"hideInstance", "unhideInstance"} =>
            /\ scene.parent = call.before.parent
            /\ scene.children = call.before.children
    /\ call.fn = "hideInstance" => ~scene.visible[call.args[1]]
    /\ call.fn = "unhideInstance" =>
            /\ scene.visible[call.args[1]]
            /\ scene = call.before

---------------------------------------------------------------------------
(* Claims about the public instance and the event priority *)

\* C17: getPublicInstance(node) returns the node itself.
C17_PublicInstanceIsNode ==
    call.fn = "getPublicInstance" =>
        /\ ~call.threw
        /\ call.result = Ref(call.args[1])

\* C18: getCurrentEventPriority returns the discrete, the continuous or the
\* default priority, and the default priority when no event is active.
C18_EventPriorityClass ==
    call.fn = "getCurrentEventPriority" =>
        /\ ~call.threw
        /\ call.result \in {DiscreteEventPriority, ContinuousEventPriority, DefaultEventPriority}
        /\ call.args[1] = None => call.result = DefaultEventPriority

---------------------------------------------------------------------------
(* Claims about the render phase *)

\* The scene graph sc is the scene graph before, but for the nodes in created,
\* which are new and attached to nothing.
OnlyCreated(sc, before, created) ==
    /\ Alive(sc) = Alive(before) \cup created
    /\ created \cap Alive(before) = {}
    /\ \A o \in Objects : sc.children[o] = before.children[o]
    /\ \A n \in Nodes : sc.parent[n] = before.parent[n]
    /\ \A n \in Alive(before) :
          /\ sc.drawn[n] = before.drawn[n]
          /\ sc.visible[n] = before.visible[n]

\* The render phase of the pass in progress has left the live scene graph and
\* the containers' root handles as they were when the pass began.
RenderPhasePure ==
    wip.phase \in {"rendered", "failed"} =>
        /\ OnlyCreated(scene, wip.before, {wip.created[k] : k \in 1..Len(wip.created)})
        /\ rootContainer = wip.handles
        /\ engine.roots[wip.root].current = wip.old

\* A step that abandons the pass in progress before its commit.
Abandoned == wip.phase \in {"rendered", "failed"} /\ wip'.phase = "idle"

\* C16: the render-phase functions change no node but the ones they create and
\* attach nothing, so while a pass is rendered and not committed, and when it is
\* abandoned, the live scene graph and the root handles are what they were
\* before the pass.
C16_RenderPhasePure ==
    /\ []RenderPhasePure
    /\ [][Abandoned =>
            /\ OnlyCreated(scene', wip.before, {wip.created[k] : k \in 1..Len(wip.created)})
            /\ rootContainer' = wip.handles
            /\ engine'.roots[wip.root].current = wip.old]_vars

\* A pass on a container with a live child has created a node and then failed.
C16_Witness ==
    /\ wip.phase = "failed"
    /\ wip.created # <<>>
    /\ wip.before.children[engine.roots[wip.root].containerInfo] # <<>>

---------------------------------------------------------------------------
(* Claims about the life of a node *)

\* The moves of a node from one step to the next.
LifeMoves == {<<"none", "created">>, <<"created", "mounted">>, <<"mounted", "removed">>}

---------------------------------------------------------------------------
(* Claims about the root sessions of distinct containers *)

\* Every container with a handle has a handle of its own, for a root created
\* once for that container, and a pass on one container's root has left the
\* child lists of the other containers alone.
SessionsApart ==
    /\ \A a \in Containers, b \in Containers :
          (a # b /\ rootContainer[a] # NoHandle /\ rootContainer[b] # NoHandle) =>
              rootContainer[a] # rootContainer[b]
    /\ \A c \in Containers :
          rootContainer[c] # NoHandle =>
              /\ engine.created[c] = 1
              /\ engine.roots[rootContainer[c]].containerInfo = c
    /\ wip.phase # "idle" =>
          \A b \in Containers \ {engine.roots[wip.root].containerInfo} :
              scene.children[b] = wip.before.children[b]

\* The root of a container, when it has one.
RootOf(eng, handles, c) == IF handles[c] = NoHandle THEN Null ELSE eng.roots[handles[c]]

\* C24: a render call against one container leaves the handle, the root and the
\* child list of every other container as they were; in every interleaving of
\* render calls each container has its own handle, created once.
C24_SessionsIndependent ==
    /\ []SessionsApart
    /\ [][session'.calls = session.calls + 1 =>
            \A b \in Containers \ {session'.container} :
                /\ rootContainer'[b] = rootContainer[b]
                /\ engine'.created[b] = engine.created[b]
                /\ RootOf(engine', rootContainer', b) = RootOf(engine, rootContainer, b)
                /\ scene'.children[b] = scene.children[b]]_vars

\* A render against B while A has its handle and a committed child: both
\* containers then have a handle.
C24_Witness ==
    /\ Rendered
    /\ session.container = "B"
    /\ session.handleBefore = NoHandle
    /\ rootContainer["A"] # NoHandle
    /\ rootContainer["B"] # NoHandle
    /\ scene.children["A"] # <<>>

---------------------------------------------------------------------------
(* Claims about the logging wrapper *)

\* What the function under the wrapper does, called by itself in the scene
\* graph sc with the arguments of a node-level call.
Unwrapped(fn, sc, args) ==
    CASE fn = "createInstance" -> createInstance(sc, args[1], args[2])
      [] fn = "prepareUpdate" -> prepareUpdate(sc, args[1], TYPE_RECTANGLE, args[2], args[3])
      [] fn = "getPublicInstance" -> getPublicInstance(sc, args[1])
      [] fn = "getCurrentEventPriority" -> getCurrentEventPriority(sc)

\* C22: a call through the wrapper calls the function once with the call's
\* arguments, returns what the function returned or throws what it threw, and
\* leaves the scene graph the function left; logging touches no root handle.
C22_LoggingTransparent ==
    call.fn # None =>
        LET r == Unwrapped(call.fn, call.before, call.args)
        IN /\ call.invoked = <<call.args>>
           /\ call.threw = r.threw
           /\ call.result = r.result
           /\ scene = r.scene
           /\ call.logged = IF r.threw THEN <<>> ELSE <<call.fn, call.args, r.result>>
           /\ \A c \in Containers : rootContainer[c] = NoHandle

\* createInstance threw under the wrapper: the error reached the caller and
\* nothing was logged.
C22_Witness ==
    /\ call.fn = "createInstance"
    /\ call.threw
    /\ call.result = Error("Unknown element type")
    /\ call.logged = <<>>
    /\ call.invoked = <<call.args>>

---------------------------------------------------------------------------
(* Claims about the commits of several passes *)

\* The nodes of the fibers a pass works with: the committed ones and its own.
PassNodes ==
    LET nodes == NodeList(wip.old, 1) \o NodeList(wip.fibers, 1)
    IN {nodes[k] : k \in 1..Len(nodes)}

\* Until the render phase of a pass is over no commit function has run; the
\* commit functions of a pass are called on its own root's container and on
\* nodes of its own fibers.
CommitOfOnePass ==
    /\ wip.phase \in {"rendered", "failed"} =>
          /\ wip.ops = <<>>
          /\ scene.children = wip.before.children
    /\ wip.phase = "committed" =>
          LET c == engine.roots[wip.root].containerInfo
          IN /\ wip.ops = CommitOps(c, wip.old, wip.fibers)
             /\ \A k \in 1..Len(wip.ops) :
                   IF wip.ops[k].fn = "commitUpdate"
                   THEN wip.ops[k].args[1] \in PassNodes
                   ELSE /\ wip.ops[k].args[1] \in {c} \cup PassNodes
                        /\ wip.ops[k].args[1] \in Containers => wip.ops[k].args[1] = c
                        /\ \A a \in 2..Len(wip.ops[k].args) : wip.ops[k].args[a] \in PassNodes
             /\ \A b \in Containers \ {c} : scene.children[b] = wip.before.children[b]

\* A step changes child lists only as the commit of the rendered pass, begins a
\* pass only at rest, and commits without taking a queued update.
OnePassAtATime ==
    /\ scene'.children # scene.children =>
          /\ wip.phase = "rendered"
          /\ wip'.phase = "committed"
          /\ wip'.root = wip.root
          /\ wip'.fibers = wip.fibers
    /\ (wip'.phase \in {"rendered", "failed"} /\ wip.phase # wip'.phase) =>
          wip.phase = "idle"
    /\ (wip'.phase = "committed" /\ wip.phase # "committed") =>
          /\ wip.phase = "rendered"
          /\ \A r \in 1..Len(engine.roots) :
                /\ engine'.roots[r].pending = engine.roots[r].pending
                /\ (r # wip.root => engine'.roots[r].current = engine.roots[r].current)

---------------------------------------------------------------------------
(* Claims about the first render of nested elements *)

\* The fibers are, element by element and level by level, those of desc.
RECURSIVE FibersOf(_, _)
FibersOf(fibers, desc) ==
    /\ Len(fibers) = Len(desc)
    /\ \A k \in 1..Len(desc) :
          /\ fibers[k].key = desc[k].key
          /\ fibers[k].type = desc[k].type
          /\ FibersOf(fibers[k].children, desc[k].children)

\* Every fiber's node is in the child list of its parent's node, once.
RECURSIVE Hung(_, _, _)
Hung(sc, parent, fibers) ==
    \A k \in 1..Len(fibers) :
        /\ Count(sc.children[parent], fibers[k].stateNode) = 1
        /\ sc.parent[fibers[k].stateNode] = parent
        /\ Hung(sc, fibers[k].stateNode, fibers[k].children)

\* C23: when the first pass on a container has committed, every element of the
\* description, nested ones included, has one node of its own, and the node is
\* in the child list of its parent element's node, or of the container for a
\* top-level element, so that the container reaches it.
C23_FirstRenderAttachesAll ==
    (wip.phase = "committed" /\ wip.old = <<>>) =>
        LET c == engine.roots[wip.root].containerInfo
            fibers == engine.roots[wip.root].current
            nodes == NodeList(fibers, 1)
        IN /\ FibersOf(fibers, wip.desc)
           /\ \A m \in 1..Len(nodes), n \in 1..Len(nodes) : nodes[m] = nodes[n] => m = n
           /\ \A n \in 1..Len(nodes) : nodes[n] \in Alive(scene)
           /\ Hung(scene, c, fibers)
           /\ \A n \in 1..Len(nodes) : nodes[n] \in Subtree(scene, c)

====
